---- MODULE Spec2Model ----
(***************************************************************************)
(* The Vuex store of the geo portal (src/src/store/index.js): the layer    *)
(* catalog, the flat context list, the Group/Context tree with its parent  *)
(* back-references, the derived contextsTimes array and the active set,    *)
(* with one action per mutation.  A mutation that throws part way leaves   *)
(* the assignments it made before the throw in the state.  SpecActions     *)
(* runs the promise chains of the store actions fetchLayersConfig and      *)
(* restoreBackup; SpecSchema runs fetchLayersConfig on documents that      *)
(* getLayers validates against the schema (src/unnamed/part_000).          *)
(***************************************************************************)
EXTENDS Integers, Sequences, FiniteSets, TLC

VARIABLES layers, nodes, contexts, groups, contextsTimes, activeContextsIds,
          editGroup, editContext, last, move, steps, tasks, config

vars == <<layers, nodes, contexts, groups, contextsTimes, activeContextsIds,
          editGroup, editContext, last, move, steps, tasks, config>>

\* ------------------------------------------------------------------ bounds
\* Number of mutations committed after the store is constructed.
MaxSteps == 3
\* Number of store actions (fetchLayersConfig, restoreBackup) dispatched.
MaxTasks == 2
\* Number of Group/Context objects alive at once (add_group, add_context).
MaxNodes == 5
\* Length up to which set_context_time may grow the contextsTimes array.
MaxTimesLen == 5

\* ------------------------------------------------------------ JS values
\* null / undefined of a reference-typed field (state.groups, parent, editGroup).
Null == [null |-> TRUE]
\* The value Array.prototype.find returns when nothing matches.
Undefined == [undefined |-> TRUE]
\* An index of a sparse array that was never assigned.
Hole == [hole |-> TRUE]
\* Reference of "no object" in the heap of Group/Context objects.
NoRef == 0

Range(s) == {s[i] : i \in 1..Len(s)}

Min(a, b) == IF a < b THEN a ELSE b

Max(a, b) == IF a > b THEN a ELSE b

\* ---------------------------------------------------------------- times
\* The time objects of the layers: { iso8601: <string> }.
T1 == [iso8601 |-> "2020-01-01"]

T2 == [iso8601 |-> "2020-01-02"]

T3 == [iso8601 |-> "2020-01-03"]

\* The same instant as T1 under another ISO-8601 spelling.
T1z == [iso8601 |-> "2020-01-01T00:00:00Z"]

Times == {T1, T2, T3, T1z}

\* Date.parse of an ISO-8601 string, in seconds (the millisecond value / 1000,
\* to stay inside TLC's integers); a date-only string is UTC midnight.
DateParse(s) ==
  CASE s = "2020-01-01" -> 1577836800
    [] s = "2020-01-01T00:00:00Z" -> 1577836800
    [] s = "2020-01-02" -> 1577923200
    [] s = "2020-01-03" -> 1578009600

\* --------------------------------------------------------------- layers
\* Layer objects.  The statistics field is absent, <<>> (an empty array) or a
\* non-empty array of descriptors.
LA1 == [id |-> 1, type |-> "wms", times |-> <<T1, T2>>, statistics |-> <<>>]

LA2 == [id |-> 2, type |-> "wms", times |-> <<T2, T3>>, statistics |-> <<"url">>]

LO3 == [id |-> 3, type |-> "osm", times |-> <<>>]

\* A later version of layer 1: other times, not in ascending order.
LB1 == [id |-> 1, type |-> "wms", times |-> <<T3, T1z>>, statistics |-> <<"attributes">>]

\* A wms layer that declares no time.
LB4 == [id |-> 4, type |-> "wms", times |-> <<>>]

\* Two layers of one configuration that have the same id.
LC1 == [id |-> 1, type |-> "wms", times |-> <<>>]

LC1b == [id |-> 1, type |-> "wms", times |-> <<T3>>]

\* Layer objects are compared by reference (indexOf).  A layer object of the
\* store carries its identity in obj: the commit whose payload brought it and
\* its index in the catalog of that payload.  Every payload is made of new
\* objects, so two objects with the same fields can differ in obj.
Allocate(l, commit, index) ==
  LET o == [commit |-> commit, index |-> index]
  IN IF "statistics" \in DOMAIN l
     THEN [id |-> l.id, type |-> l.type, times |-> l.times,
           statistics |-> l.statistics, obj |-> o]
     ELSE [id |-> l.id, type |-> l.type, times |-> l.times, obj |-> o]

\* The layer objects of the catalog of a payload.
AllocateAll(ls, commit) == [i \in 1..Len(ls) |-> Allocate(ls[i], commit, i)]

\* Catalogs given to update_layers.
Catalogs == {<<>>, <<LA1, LA2, LO3>>, <<LB1, LA2, LB4>>}

\* layerIds payloads of save_context; 9 is the id of no layer of any catalog.
LayerIdLists == {<<>>, <<2, 1>>, <<1, 9>>}

\* ---------------------------------------------------------------- nodes
\* Group and Context objects live in the heap `nodes`, a sequence indexed by
\* object reference; parent and items hold references.
GroupNode(id, parent, items) ==
  [isGroup |-> TRUE, id |-> id, parent |-> parent, items |-> items,
   layers |-> <<>>, times |-> <<>>, active |-> FALSE, label |-> "loaded"]

ContextNode(id, parent, ls, active) ==
  [isGroup |-> FALSE, id |-> id, parent |-> parent, items |-> <<>>,
   layers |-> ls, times |-> <<>>, active |-> active, label |-> "loaded"]

\* The loaded configurations handed to receive_layers by getLayers.
DocA ==
  [layers |-> <<LA1, LA2, LO3>>,
   nodes |-> << GroupNode(0, NoRef, <<2, 3>>),
                GroupNode(1, 1, <<4>>),
                ContextNode(2, 1, <<LA1, LA2>>, TRUE),
                ContextNode(3, 2, <<LO3>>, FALSE) >>,
   contexts |-> <<3, 4>>,
   groups |-> 1]

DocB ==
  [layers |-> <<LB1, LB4>>,
   nodes |-> << GroupNode(0, NoRef, <<2, 3>>),
                ContextNode(1, 1, <<LB1>>, FALSE),
                ContextNode(2, 1, <<LB4, LB1>>, TRUE) >>,
   contexts |-> <<2, 3>>,
   groups |-> 1]

\* A configuration in which two layers have id 1 and two contexts have id 1;
\* the tree refers to context 1 once.
DocC ==
  [layers |-> <<LC1, LC1b>>,
   nodes |-> << GroupNode(0, NoRef, <<2>>),
                ContextNode(1, 1, <<LC1>>, TRUE),
                ContextNode(1, NoRef, <<>>, TRUE) >>,
   contexts |-> <<2, 3>>,
   groups |-> 1]

Docs == {DocA, DocB, DocC}

\* Ids given in payloads: the ids nodes can have, and one beyond them.
Ids == 0..MaxNodes

\* ------------------------------------------------------ tree operations
RECURSIVE FindFrom(_, _, _), FindInItems(_, _, _, _)
\* Depth-first search below (and including) node r for the first node with
\* the given id; NoRef when there is none.
FindFrom(ns, r, id) ==
  IF ns[r].id = id THEN r ELSE FindInItems(ns, ns[r].items, 1, id)

FindInItems(ns, items, i, id) ==
  IF i > Len(items) THEN NoRef
  ELSE LET f == FindFrom(ns, items[i], id)
       IN IF f # NoRef THEN f ELSE FindInItems(ns, items, i + 1, id)

\* state.groups.findById(id), for a non-null state.groups.
findById(ns, root, id) == FindFrom(ns, root, id)

\* The id the Group / Context constructor gives a new node: one no node has.
RECURSIVE MaxId(_, _)
MaxId(ns, i) == IF i = 0 THEN 0 ELSE Max(ns[i].id, MaxId(ns, i - 1))

NewId(ns) == MaxId(ns, Len(ns)) + 1

\* ---------------------------------------------------------- JS arrays
\* The least element of a non-empty set of indices, 0 for the empty set: the
\* 1-based result of findIndex / indexOf / find over the matching indices.
First(S) == IF S = {} THEN 0 ELSE CHOOSE i \in S : \A j \in S : i <= j

\* arr.indexOf(x)
IndexOf(arr, x) == First({i \in 1..Len(arr) : arr[i] = x})

\* arr.findIndex(el => el.id === id) over an array of objects.
IndexOfId(arr, id) == First({i \in 1..Len(arr) : arr[i].id = id})

\* refs.findIndex(i => i.id === id) over an array of Group/Context references.
IndexOfNodeId(ns, refs, id) == First({i \in 1..Len(refs) : ns[refs[i]].id = id})

\* s.splice(i, 1) for a 1-based index i of s.
RemoveAt(s, i) == SubSeq(s, 1, i - 1) \o SubSeq(s, i + 1, Len(s))

\* A sequence of n holes.
Holes(n) == [i \in 1..n |-> Hole]

\* arr[idx] = v on a sparse array (idx is 0-based): the array is extended with
\* holes up to idx when it is shorter.
ArrayPut(arr, idx, v) ==
  IF idx < Len(arr) THEN [arr EXCEPT ![idx + 1] = v]
  ELSE arr \o Holes(idx - Len(arr)) \o <<v>>

\* arr[idx] (idx is 0-based): Hole when the index was never assigned.
ArrayGet(arr, idx) ==
  IF idx >= 0 /\ idx < Len(arr) THEN arr[idx + 1] ELSE Hole

\* arr.splice(start, deleteCount, item): start is clamped to the length (and
\* counted from the end when negative), deleteCount to what is left after it.
Splice(arr, start, deleteCount, item) ==
  LET len == Len(arr)
      actualStart == IF start < 0 THEN Max(len + start, 0) ELSE Min(start, len)
      actualDelete == Min(Max(deleteCount, 0), len - actualStart)
  IN SubSeq(arr, 1, actualStart) \o <<item>>
       \o SubSeq(arr, actualStart + actualDelete + 1, len)

\* The objects of a layersConf: the layers of a context are objects of its
\* catalog.
AllocateDoc(doc, commit) ==
  LET catalog == AllocateAll(doc.layers, commit)
      Member(l) == catalog[IndexOf(doc.layers, l)]
  IN [layers |-> catalog,
      nodes |-> [r \in 1..Len(doc.nodes) |->
                   [doc.nodes[r] EXCEPT
                      !.layers = [i \in 1..Len(doc.nodes[r].layers) |->
                                    Member(doc.nodes[r].layers[i])]]],
      contexts |-> doc.contexts,
      groups |-> doc.groups]

\* ------------------------------------------------------- time aggregator
HasUndefined(ls) == \E i \in 1..Len(ls) : ls[i] = Undefined

\* .filter(l => l.type === 'wms' && l.times.length)
TimedWms(ls) == SelectSeq(ls, LAMBDA l : l.type = "wms" /\ Len(l.times) > 0)

\* .reduce((contextTimes, l) => contextTimes.concat(l.times), [])
RECURSIVE ConcatTimes(_, _)
ConcatTimes(ls, i) ==
  IF i > Len(ls) THEN <<>> ELSE ls[i].times \o ConcatTimes(ls, i + 1)

\* .filter((elem, pos, arr) => arr.findIndex(el => el.iso8601 === elem.iso8601) === pos)
RECURSIVE DedupFrom(_, _)
DedupFrom(arr, pos) ==
  IF pos > Len(arr) THEN <<>>
  ELSE LET first == First({i \in 1..Len(arr) : arr[i].iso8601 = arr[pos].iso8601})
       IN (IF first = pos THEN <<arr[pos]>> ELSE <<>>) \o DedupFrom(arr, pos + 1)

RemoveDuplicates(arr) == DedupFrom(arr, 1)

\* The comparator of the sort.
CompareTimes(t1, t2) == DateParse(t1.iso8601) - DateParse(t2.iso8601)

\* .sort(compare): a stable sort, as an insertion sort.
RECURSIVE InsertSorted(_, _, _)
InsertSorted(sorted, x, i) ==
  IF i > Len(sorted) THEN Append(sorted, x)
  ELSE IF CompareTimes(sorted[i], x) > 0
       THEN SubSeq(sorted, 1, i - 1) \o <<x>> \o SubSeq(sorted, i, Len(sorted))
       ELSE InsertSorted(sorted, x, i + 1)

RECURSIVE SortFrom(_, _, _)
SortFrom(arr, i, acc) ==
  IF i > Len(arr) THEN acc ELSE SortFrom(arr, i + 1, InsertSorted(acc, arr[i], 1))

SortTimes(arr) == SortFrom(arr, 1, <<>>)

\* The times of one context, from its (defined) layers.
ContextTimes(ls) == SortTimes(RemoveDuplicates(ConcatTimes(TimedWms(ls), 1)))

\* The forEach of setContextsTimes from context index i on: ns is the heap so
\* far, ct the local contextsTimes array.  Reading .type of an undefined layer
\* throws: the contexts before it keep their new times, the rest is not run.
RECURSIVE TimesLoop(_, _, _, _)
TimesLoop(ns, ctxs, i, ct) ==
  IF i > Len(ctxs) THEN [nodes |-> ns, contextsTimes |-> ct, raised |-> FALSE]
  ELSE LET c == ctxs[i]
       IN IF HasUndefined(ns[c].layers)
          THEN [nodes |-> ns, contextsTimes |-> ct, raised |-> TRUE]
          ELSE LET times == ContextTimes(ns[c].layers)
                   ns2 == [ns EXCEPT ![c].times = times]
               IN TimesLoop(ns2, ctxs, i + 1,
                            IF Len(times) > 0
                            THEN ArrayPut(ct, ns[c].id, times[Len(times)])
                            ELSE ct)

\* setContextsTimes(state): [nodes, contextsTimes, raised]; state.contextsTimes
\* is assigned only when the loop ran to its end.
setContextsTimes(ns, ctxs, oldTimes) ==
  LET r == TimesLoop(ns, ctxs, 1, <<>>)
  IN [nodes |-> r.nodes,
      contextsTimes |-> IF r.raised THEN oldTimes ELSE r.contextsTimes,
      raised |-> r.raised]

\* ------------------------------------------------------------ mutations
\* Every mutation returns the fields of the state it assigns and whether it
\* threw; a field it did not reach keeps the value it is given.

\* state.layers.find(layer => layer.id === id)
FindLayer(ls, id) ==
  LET k == IndexOfId(ls, id)
  IN IF k = 0 THEN Undefined ELSE ls[k]

\* layerIds.map(id => state.layers.find(layer => layer.id === id))
ResolveLayers(ls, layerIds) ==
  [i \in 1..Len(layerIds) |-> FindLayer(ls, layerIds[i])]

\* save_context: the fields are assigned in order, then setContextsTimes runs.
SaveContext(ns, root, ls, ctxs, ct, id, label, active, layerIds) ==
  IF root = NoRef THEN [nodes |-> ns, contextsTimes |-> ct, raised |-> TRUE]
  ELSE LET context == findById(ns, root, id)
       IN IF context = NoRef
          THEN [nodes |-> ns, contextsTimes |-> ct, raised |-> TRUE]
          ELSE LET ns2 == [ns EXCEPT ![context].label = label,
                                     ![context].active = active,
                                     ![context].layers = ResolveLayers(ls, layerIds)]
               IN setContextsTimes(ns2, ctxs, ct)

\* save_group: overwrites the label bundle of the group.
SaveGroup(ns, root, id, label) ==
  IF root = NoRef THEN [nodes |-> ns, raised |-> TRUE]
  ELSE LET group == findById(ns, root, id)
       IN IF group = NoRef THEN [nodes |-> ns, raised |-> TRUE]
          ELSE [nodes |-> [ns EXCEPT ![group].label = label], raised |-> FALSE]

\* contextLayers.map(layer => value.find(l => l.id === layer.id)).filter(l => !!l)
\* where the map does not throw (find on an empty array calls no callback).
SwapLayers(contextLayers, value) ==
  SelectSeq([i \in 1..Len(contextLayers) |->
               IF Len(value) = 0 THEN Undefined
               ELSE FindLayer(value, contextLayers[i].id)],
            LAMBDA l : l # Undefined)

\* The map reads layer.id inside the callback of value.find, which runs only
\* when value has an element: an undefined context layer then throws.
SwapThrows(contextLayers, value) ==
  Len(value) > 0 /\ HasUndefined(contextLayers)

\* The forEach of update_layers over state.contexts, from index i on.
RECURSIVE SwapLoop(_, _, _, _)
SwapLoop(ns, ctxs, i, value) ==
  IF i > Len(ctxs) THEN [nodes |-> ns, raised |-> FALSE]
  ELSE LET c == ctxs[i]
       IN IF SwapThrows(ns[c].layers, value) THEN [nodes |-> ns, raised |-> TRUE]
          ELSE SwapLoop([ns EXCEPT ![c].layers = SwapLayers(ns[c].layers, value)],
                        ctxs, i + 1, value)

\* update_layers: state.layers is assigned first, setContextsTimes runs last.
UpdateLayers(ns, ctxs, ct, value) ==
  LET sw == SwapLoop(ns, ctxs, 1, value)
  IN IF sw.raised
     THEN [nodes |-> sw.nodes, contextsTimes |-> ct, raised |-> TRUE]
     ELSE setContextsTimes(sw.nodes, ctxs, ct)

\* Mutant of StampParents: the parents of the new items are left as they were.
StampParentsNone(ns, items, i, group) == ns

\* group.items.forEach(item => { item.parent = group })
RECURSIVE StampParents(_, _, _, _)
StampParents(ns, items, i, group) ==
  IF i > Len(items) THEN ns
  ELSE StampParents([ns EXCEPT ![items[i]].parent = group], items, i + 1, group)

\* Mutant of UpdateGroup: the items array of the group is not replaced.
UpdateGroupKeepItems(ns, root, groupId, value) ==
  IF root = NoRef THEN [nodes |-> ns, raised |-> TRUE]
  ELSE LET group == findById(ns, root, groupId)
       IN IF group = NoRef THEN [nodes |-> ns, raised |-> TRUE]
          ELSE [nodes |-> StampParents(ns, ns[group].items, 1, group),
                raised |-> FALSE]

\* update_group: group.items of an undefined group throws.
UpdateGroup(ns, root, groupId, value) ==
  IF root = NoRef THEN [nodes |-> ns, raised |-> TRUE]
  ELSE LET group == findById(ns, root, groupId)
       IN IF group = NoRef THEN [nodes |-> ns, raised |-> TRUE]
          ELSE [nodes |-> StampParents([ns EXCEPT ![group].items = value],
                                       value, 1, group),
                raised |-> FALSE]

\* Mutant of DeleteItem: the removed node also loses its parent reference.
DeleteItemClearParent(ns, root, id) ==
  IF root = NoRef THEN [nodes |-> ns, raised |-> TRUE]
  ELSE LET item == findById(ns, root, id)
       IN IF item = NoRef \/ ns[item].parent = NoRef
          THEN [nodes |-> ns, raised |-> TRUE]
          ELSE LET parent == ns[item].parent
                   index == IndexOfNodeId(ns, ns[parent].items, id)
               IN [nodes |-> IF index > 0
                             THEN [ns EXCEPT ![parent].items = RemoveAt(@, index),
                                             ![item].parent = NoRef]
                             ELSE ns,
                   raised |-> FALSE]

\* delete_item: item.parent of an undefined item, and .items of the root's
\* missing parent, throw.
DeleteItem(ns, root, id) ==
  IF root = NoRef THEN [nodes |-> ns, raised |-> TRUE]
  ELSE LET item == findById(ns, root, id)
       IN IF item = NoRef \/ ns[item].parent = NoRef
          THEN [nodes |-> ns, raised |-> TRUE]
          ELSE LET parent == ns[item].parent
                   index == IndexOfNodeId(ns, ns[parent].items, id)
               IN [nodes |-> IF index > 0
                             THEN [ns EXCEPT ![parent].items = RemoveAt(@, index)]
                             ELSE ns,
                   raised |-> FALSE]

\* The body of toggle_context once the context was found.
ToggleIds(active, contextId) ==
  LET idx == IndexOf(active, contextId)
  IN IF idx = 0 THEN Append(active, contextId) ELSE RemoveAt(active, idx)

\* toggle_context: state.contexts.find(c => c.id === contextId) guards the flip.
ToggleContext(ns, ctxs, active, contextId) ==
  IF IndexOfNodeId(ns, ctxs, contextId) # 0
  THEN ToggleIds(active, contextId)
  ELSE active

\* set_context_time: state.contextsTimes.splice(contextId, 1, time)
SetContextTime(ct, contextId, time) == Splice(ct, contextId, 1, time)

\* Mutant of ActiveIds: the active flag is not read.
ActiveIdsAll(ns, ctxs, i) == [k \in 1..Len(ctxs) |-> ns[ctxs[k]].id]

\* state.contexts.reduce((a, c) => c.active ? a.concat(c.id) : a, [])
RECURSIVE ActiveIds(_, _, _)
ActiveIds(ns, ctxs, i) ==
  IF i > Len(ctxs) THEN <<>>
  ELSE (IF ns[ctxs[i]].active THEN <<ns[ctxs[i]].id>> ELSE <<>>)
         \o ActiveIds(ns, ctxs, i + 1)

\* -------------------------------------------------------------- getters
\* The forEach of getters.activeLayers: the layers of the contexts whose id
\* is in activeContextsIds, walking state.contexts from index i on.
RECURSIVE PushActive(_, _, _, _)
PushActive(ns, ctxs, active, i) ==
  IF i > Len(ctxs) THEN <<>>
  ELSE (IF IndexOf(active, ns[ctxs[i]].id) # 0 THEN ns[ctxs[i]].layers ELSE <<>>)
         \o PushActive(ns, ctxs, active, i + 1)

\* Mutant of DeleteDuplicates: every occurrence is kept.
KeepDuplicates(arr) == arr

\* .filter((elem, pos, arr) => arr.indexOf(elem) === pos)
DeleteDuplicates(arr) ==
  LET keep == {pos \in 1..Len(arr) : IndexOf(arr, arr[pos]) = pos}
      F[pos \in 0..Len(arr)] ==
        IF pos = 0 THEN <<>>
        ELSE IF pos \in keep THEN Append(F[pos - 1], arr[pos]) ELSE F[pos - 1]
  IN F[Len(arr)]

\* getters.activeLayers
activeLayers(ns, ctxs, active) == DeleteDuplicates(PushActive(ns, ctxs, active, 1))

\* layer.statistics is truthy: the field is there (an array, even an empty
\* one, is truthy).
HasStatistics(layer) == "statistics" \in DOMAIN layer

\* getters.queryableLayers: reading .statistics of an undefined entry of
\* activeLayers throws.
queryableLayers(al) ==
  IF HasUndefined(al) THEN [raised |-> TRUE, value |-> <<>>]
  ELSE [raised |-> FALSE, value |-> SelectSeq(al, HasStatistics)]

\* ------------------------------------------------------- state machine
\* A drag-and-drop move is two update_group commits made from one event
\* handler: no other mutation runs between them.
Moving == move # Null /\ ~move.done

\* The record of the mutation just committed.
Commit(op, id, raised, arg) ==
  /\ last' = [op |-> op, id |-> id, raised |-> raised, arg |-> arg]
  /\ steps' = steps + 1

\* A mutation committed by a component: no store action is involved.
Done(op, id, raised, arg) ==
  /\ Commit(op, id, raised, arg)
  /\ UNCHANGED <<tasks, config>>

\* Guard of every mutation that is not the second half of a move.
Idle == ~Moving /\ steps < MaxSteps

\* The groups reachable from the root, and the nodes listed in their items.
RECURSIVE Subtree(_, _)
Subtree(ns, r) ==
  {r} \cup UNION {Subtree(ns, ns[r].items[i]) : i \in 1..Len(ns[r].items)}

TreeNodes == IF groups = NoRef THEN {} ELSE Subtree(nodes, groups)

TreeGroups == {r \in TreeNodes : nodes[r].isGroup}

\* No configuration document is being validated.
NoConfig == [document |-> Null, change |-> "none", verdict |-> "absent"]

\* The state object the store is constructed with.
InitialState ==
  /\ layers = <<>>
  /\ nodes = <<>>
  /\ contexts = <<>>
  /\ groups = NoRef
  /\ contextsTimes = <<>>
  /\ activeContextsIds = <<>>
  /\ editGroup = Null
  /\ editContext = Null
  /\ last = [op |-> "init", id |-> -1, raised |-> FALSE, arg |-> Null]
  /\ move = Null
  /\ steps = 0

Init ==
  /\ InitialState
  /\ tasks = <<>>
  /\ config = NoConfig

\* The body of the receive_layers mutation; layersConf is made of the objects
\* getLayers built for this load.
ReceiveLayers(doc) ==
  /\ LET layersConf == AllocateDoc(doc, steps + 1)
         r == setContextsTimes(layersConf.nodes, layersConf.contexts, contextsTimes)
     IN /\ layers' = layersConf.layers
        /\ contexts' = layersConf.contexts
        /\ groups' = layersConf.groups
        /\ nodes' = r.nodes
        /\ contextsTimes' = r.contextsTimes
        /\ activeContextsIds' = IF r.raised THEN activeContextsIds
                                ELSE ActiveIds(r.nodes, layersConf.contexts, 1)
        /\ Commit("receive_layers", -1, r.raised, [doc |-> layersConf])
  /\ move' = Null
  /\ UNCHANGED <<editGroup, editContext>>

receive_layers(doc) ==
  /\ Idle
  /\ ReceiveLayers(doc)
  /\ UNCHANGED <<tasks, config>>

add_group ==
  /\ Idle
  /\ Len(nodes) < MaxNodes
  /\ IF groups = NoRef
     THEN /\ UNCHANGED nodes
          /\ Done("add_group", -1, TRUE, Null)
     ELSE /\ nodes' = Append([nodes EXCEPT ![groups].items = Append(@, Len(nodes) + 1)],
                             [GroupNode(NewId(nodes), groups, <<>>)
                                EXCEPT !.label = "New group"])
          /\ Done("add_group", -1, FALSE, Null)
  /\ move' = Null
  /\ UNCHANGED <<layers, contexts, groups, contextsTimes, activeContextsIds,
                 editGroup, editContext>>

add_context ==
  /\ Idle
  /\ Len(nodes) < MaxNodes
  /\ IF groups = NoRef
     THEN /\ UNCHANGED <<nodes, contexts>>
          /\ Done("add_context", -1, TRUE, Null)
     ELSE /\ nodes' = Append([nodes EXCEPT ![groups].items = Append(@, Len(nodes) + 1)],
                             [ContextNode(NewId(nodes), groups, <<>>, FALSE)
                                EXCEPT !.label = "New context"])
          /\ contexts' = Append(contexts, Len(nodes) + 1)
          /\ Done("add_context", -1, FALSE, Null)
  /\ move' = Null
  /\ UNCHANGED <<layers, groups, contextsTimes, activeContextsIds,
                 editGroup, editContext>>

edit_item(id) ==
  /\ Idle
  /\ IF groups = NoRef
     THEN /\ UNCHANGED <<editGroup, editContext>>
          /\ Done("edit_item", id, TRUE, Null)
     ELSE LET item == findById(nodes, groups, id)
          IN /\ IF item # NoRef
                THEN IF nodes[item].isGroup
                     THEN editGroup' = [id |-> nodes[item].id] /\ UNCHANGED editContext
                     ELSE editContext' = [id |-> nodes[item].id] /\ UNCHANGED editGroup
                ELSE editContext' = Null /\ editGroup' = Null
             /\ Done("edit_item", id, FALSE, Null)
  /\ move' = Null
  /\ UNCHANGED <<layers, nodes, contexts, groups, contextsTimes, activeContextsIds>>

delete_item(id) ==
  /\ Idle
  /\ LET r == DeleteItem(nodes, groups, id)
     IN /\ nodes' = r.nodes
        /\ Done("delete_item", id, r.raised, Null)
  /\ move' = Null
  /\ UNCHANGED <<layers, contexts, groups, contextsTimes, activeContextsIds,
                 editGroup, editContext>>

save_group(id) ==
  /\ Idle
  /\ LET r == SaveGroup(nodes, groups, id, "saved")
     IN /\ nodes' = r.nodes
        /\ Done("save_group", id, r.raised, Null)
  /\ move' = Null
  /\ UNCHANGED <<layers, contexts, groups, contextsTimes, activeContextsIds,
                 editGroup, editContext>>

save_context(id, active, layerIds) ==
  /\ Idle
  /\ LET r == SaveContext(nodes, groups, layers, contexts, contextsTimes,
                          id, "saved", active, layerIds)
     IN /\ nodes' = r.nodes
        /\ contextsTimes' = r.contextsTimes
        /\ Done("save_context", id, r.raised, [layerIds |-> layerIds])
  /\ move' = Null
  /\ UNCHANGED <<layers, contexts, groups, activeContextsIds, editGroup, editContext>>

toggle_context(contextId) ==
  /\ Idle
  /\ activeContextsIds' = ToggleContext(nodes, contexts, activeContextsIds, contextId)
  /\ Done("toggle_context", contextId, FALSE, Null)
  /\ move' = Null
  /\ UNCHANGED <<layers, nodes, contexts, groups, contextsTimes, editGroup, editContext>>

set_context_time(contextId, time) ==
  /\ Idle
  /\ Len(SetContextTime(contextsTimes, contextId, time)) <= MaxTimesLen
  /\ contextsTimes' = SetContextTime(contextsTimes, contextId, time)
  /\ Done("set_context_time", contextId, FALSE, time)
  /\ move' = Null
  /\ UNCHANGED <<layers, nodes, contexts, groups, activeContextsIds,
                 editGroup, editContext>>

update_layers(value) ==
  /\ Idle
  /\ LET catalog == AllocateAll(value, steps + 1)
         r == UpdateLayers(nodes, contexts, contextsTimes, catalog)
     IN /\ layers' = catalog
        /\ nodes' = r.nodes
        /\ contextsTimes' = r.contextsTimes
        /\ Done("update_layers", -1, r.raised, Null)
  /\ move' = Null
  /\ UNCHANGED <<contexts, groups, activeContextsIds, editGroup, editContext>>

\* value of an update_group that reorders the items of a group in place.
Rotate(items) == IF Len(items) = 0 THEN items ELSE Append(Tail(items), Head(items))

\* items with the object x taken out / put in at 1-based position pos.
Without(items, x) == SelectSeq(items, LAMBDA i : i # x)

InsertAt(items, pos, x) ==
  SubSeq(items, 1, pos - 1) \o <<x>> \o SubSeq(items, pos, Len(items))

\* update_group on its own: a reorder inside one group, or a groupId whose
\* group is gone.
update_group(groupId) ==
  /\ Idle
  /\ LET group == IF groups = NoRef THEN NoRef ELSE findById(nodes, groups, groupId)
         value == IF group = NoRef THEN <<>> ELSE Rotate(nodes[group].items)
         r == UpdateGroup(nodes, groups, groupId, value)
     IN /\ IF group = NoRef THEN TRUE ELSE nodes[group].isGroup
        /\ nodes' = r.nodes
        /\ Done("update_group", groupId, r.raised, Null)
  /\ move' = Null
  /\ UNCHANGED <<layers, contexts, groups, contextsTimes, activeContextsIds,
                 editGroup, editContext>>

\* The value the draggable list of one side of the move emits.
MoveValue(ns, m, side) ==
  IF side = "remove" THEN Without(ns[m.from].items, m.item)
  ELSE InsertAt(ns[m.to].items, m.pos, m.item)

MoveGroupId(ns, m, side) ==
  IF side = "remove" THEN ns[m.from].id ELSE ns[m.to].id

OtherSide(side) == IF side = "remove" THEN "add" ELSE "remove"

\* First update_group of a move of item x from its group g1 to group g2.
drag_first(x, g1, g2, pos, side) ==
  /\ Idle
  /\ steps + 2 <= MaxSteps
  /\ x \in TreeNodes \ {groups}
  /\ g1 \in TreeGroups /\ g2 \in TreeGroups /\ g1 # g2
  /\ x \in Range(nodes[g1].items)
  /\ g2 \notin Subtree(nodes, x)
  /\ pos \in 1..(Len(nodes[g2].items) + 1)
  /\ LET m == [item |-> x, from |-> g1, to |-> g2, pos |-> pos, first |-> side,
               lenFrom |-> Len(nodes[g1].items), lenTo |-> Len(nodes[g2].items),
               done |-> FALSE]
         r == UpdateGroup(nodes, groups, MoveGroupId(nodes, m, side),
                          MoveValue(nodes, m, side))
     IN /\ nodes' = r.nodes
        /\ move' = m
        /\ Done("update_group", MoveGroupId(nodes, m, side), r.raised, Null)
  /\ UNCHANGED <<layers, contexts, groups, contextsTimes, activeContextsIds,
                 editGroup, editContext>>

\* Second update_group of the move, on the other group.
drag_second ==
  /\ Moving
  /\ LET side == OtherSide(move.first)
         r == UpdateGroup(nodes, groups, MoveGroupId(nodes, move, side),
                          MoveValue(nodes, move, side))
     IN /\ nodes' = r.nodes
        /\ move' = [move EXCEPT !.done = TRUE]
        /\ Done("update_group", MoveGroupId(nodes, move, side), r.raised, Null)
  /\ UNCHANGED <<layers, contexts, groups, contextsTimes, activeContextsIds,
                 editGroup, editContext>>

\* Times the operator picks in the time slider.
PickedTimes == {T1}

Refs == 1..MaxNodes

Next ==
  \/ \E doc \in Docs : receive_layers(doc)
  \/ add_group
  \/ add_context
  \/ \E id \in Ids : edit_item(id)
  \/ \E id \in Ids : delete_item(id)
  \/ \E id \in Ids : save_group(id)
  \/ \E id \in Ids, layerIds \in LayerIdLists : save_context(id, TRUE, layerIds)
  \/ \E id \in Ids : toggle_context(id)
  \/ \E id \in Ids, time \in PickedTimes : set_context_time(id, time)
  \/ \E value \in Catalogs : update_layers(value)
  \/ \E id \in Ids : update_group(id)
  \/ \E x \in Refs, g1 \in Refs, g2 \in Refs, pos \in Refs, side \in {"remove", "add"} :
       drag_first(x, g1, g2, pos, side)
  \/ drag_second

Spec == Init /\ [][Next]_vars

\* ---------------------------------------------------------- store actions
\* A dispatched action is a chain of promises.  pc is the promise the chain
\* waits for ("restoreVersion", "getLayers"), that promise settled
\* (".resolved", ".rejected"), the promise of the then-callback rejected by
\* a commit that threw ("receive_layers.threw"), or the end of the chain
\* ("committed", "alerted").  succeeded and committed record what the chain
\* has seen.
NewTask(action, pc) ==
  [action |-> action, pc |-> pc, doc |-> Null,
   succeeded |-> FALSE, committed |-> FALSE]

Store == <<layers, nodes, contexts, groups, contextsTimes, activeContextsIds,
           editGroup, editContext, last, move, steps>>

\* dispatch('restoreBackup', { version }): restoreVersion(version) is called.
dispatch_restoreBackup ==
  /\ ~Moving
  /\ Len(tasks) < MaxTasks
  /\ tasks' = Append(tasks, NewTask("restoreBackup", "restoreVersion"))
  /\ UNCHANGED <<Store, config>>

\* dispatch('fetchLayersConfig'): getLayers(locale) is called.
dispatch_fetchLayersConfig ==
  /\ ~Moving
  /\ Len(tasks) < MaxTasks
  /\ tasks' = Append(tasks, NewTask("fetchLayersConfig", "getLayers"))
  /\ UNCHANGED <<Store, config>>

\* The server answers restoreVersion.
restoreVersion_settles(i, ok) ==
  /\ i \in DOMAIN tasks
  /\ tasks[i].pc = "restoreVersion"
  /\ tasks' = [tasks EXCEPT ![i].pc = IF ok THEN "restoreVersion.resolved"
                                            ELSE "restoreVersion.rejected",
                            ![i].succeeded = ok]
  /\ UNCHANGED <<Store, config>>

\* The server answers getLayers with a configuration.
getLayers_resolves(i, doc) ==
  /\ i \in DOMAIN tasks
  /\ tasks[i].pc = "getLayers"
  /\ tasks' = [tasks EXCEPT ![i].pc = "getLayers.resolved", ![i].doc = doc]
  /\ UNCHANGED <<Store, config>>

\* getLayers fails.
getLayers_rejects(i) ==
  /\ i \in DOMAIN tasks
  /\ tasks[i].pc = "getLayers"
  /\ tasks' = [tasks EXCEPT ![i].pc = "getLayers.rejected"]
  /\ UNCHANGED <<Store, config>>

\* Mutant of RestoreThen: the chain ends without a load.
RestoreThenNothing(task) == [task EXCEPT !.pc = "alerted"]

\* .then((x) => dispatch('fetchLayersConfig')): getLayers is called.
RestoreThen(task) == [task EXCEPT !.pc = "getLayers"]

\* Mutant of Alert: the handler empties the store before it reports.
AlertAndReset ==
  /\ layers' = <<>>
  /\ contexts' = <<>>
  /\ activeContextsIds' = <<>>
  /\ UNCHANGED <<nodes, groups, contextsTimes, editGroup, editContext,
                 last, move, steps>>

\* alert(...): the error is shown, the store is not touched.
Alert == UNCHANGED Store

restoreBackup_then(i) ==
  /\ i \in DOMAIN tasks
  /\ tasks[i].pc = "restoreVersion.resolved"
  /\ tasks' = [tasks EXCEPT ![i] = RestoreThen(@)]
  /\ UNCHANGED <<Store, config>>

restoreBackup_catch(i) ==
  /\ i \in DOMAIN tasks
  /\ tasks[i].pc = "restoreVersion.rejected"
  /\ tasks' = [tasks EXCEPT ![i].pc = "alerted"]
  /\ Alert
  /\ UNCHANGED config

\* .then(layersConf => commit('receive_layers', { layersConf })); an
\* exception of the mutation rejects the promise of the then, whose catch
\* reaction runs in a later turn.
fetchLayersConfig_then(i) ==
  /\ i \in DOMAIN tasks
  /\ tasks[i].pc = "getLayers.resolved"
  /\ ~Moving
  /\ ReceiveLayers(tasks[i].doc)
  /\ tasks' = [tasks EXCEPT ![i].pc = IF last'.raised THEN "receive_layers.threw"
                                                       ELSE "committed",
                            ![i].committed = TRUE]
  /\ UNCHANGED config

\* .catch(error => alert(error)): the reaction to a rejected getLayers and to
\* a commit that threw.
fetchLayersConfig_catch(i) ==
  /\ i \in DOMAIN tasks
  /\ tasks[i].pc \in {"getLayers.rejected", "receive_layers.threw"}
  /\ tasks' = [tasks EXCEPT ![i].pc = "alerted"]
  /\ Alert
  /\ UNCHANGED config

TaskIds == 1..MaxTasks

\* The store actions, with a user who toggles the listed contexts while
\* they run.
NextActions ==
  \/ dispatch_restoreBackup
  \/ dispatch_fetchLayersConfig
  \/ \E i \in TaskIds, ok \in BOOLEAN : restoreVersion_settles(i, ok)
  \/ \E i \in TaskIds, doc \in Docs : getLayers_resolves(i, doc)
  \/ \E i \in TaskIds : getLayers_rejects(i)
  \/ \E i \in TaskIds : restoreBackup_then(i)
  \/ \E i \in TaskIds : restoreBackup_catch(i)
  \/ \E i \in TaskIds : fetchLayersConfig_then(i)
  \/ \E i \in TaskIds : fetchLayersConfig_catch(i)
  \/ \E id \in {nodes[c].id : c \in Range(contexts)} : toggle_context(id)

\* What fetchLayersConfig_then(i) does to its chain.  No other action makes
\* this change to tasks, so a step of it is a step of fetchLayersConfig_then(i).
LoadReaction(i) ==
  /\ i \in DOMAIN tasks
  /\ tasks[i].pc = "getLayers.resolved"
  /\ ~Moving
  /\ tasks' \in {[tasks EXCEPT ![i].pc = pc, ![i].committed = TRUE] :
                    pc \in {"committed", "receive_layers.threw"}}

\* The reactions of a settled promise are run by the event loop; nothing
\* makes the server answer.
Reactions ==
  \A i \in TaskIds :
    /\ WF_vars(restoreBackup_then(i))
    /\ WF_vars(restoreBackup_catch(i))
    /\ WF_tasks(LoadReaction(i))
    /\ WF_vars(fetchLayersConfig_catch(i))

SpecActions == Init /\ [][NextActions]_vars /\ Reactions

\* ------------------------------------------------- configuration schema
\* JSON values carry their JSON type; the value of an object is a function
\* from its keys.
JNumber(n) == [t |-> "number", v |-> n]

JString(s) == [t |-> "string", v |-> s]

JBoolean(b) == [t |-> "boolean", v |-> b]

JArray(a) == [t |-> "array", v |-> a]

JObject(o) == [t |-> "object", v |-> o]

Keys(x) == DOMAIN x.v

\* "additionalProperties": false over the declared properties, and "required".
Closed(x, declared, required) ==
  /\ Keys(x) \subseteq declared
  /\ required \subseteq Keys(x)

\* A property declared as { "type": t }.
Typed(x, k, t) == k \in Keys(x) => x.v[k].t = t

\* A property declared as { "enum": [s] }.
Enum(x, k, s) == k \in Keys(x) => x.v[k] = JString(s)

\* A property declared as an array whose items are { "type": t }.
TypedArray(x, k, t) ==
  k \in Keys(x) =>
    /\ x.v[k].t = "array"
    /\ \A i \in 1..Len(x.v[k].v) : x.v[k].v[i].t = t

\* The character at 1-based position i of a string, "" beyond its end.
CharAt(s, i) == IF i >= 1 /\ i <= Len(s) THEN SubSeq(s, i, i) ELSE ""

\* [0-9]
IsDigit(c) == c \in {"0", "1", "2", "3", "4", "5", "6", "7", "8", "9"}

\* [0-9]{n} at position i.
DigitsAt(s, i, n) == \A k \in i..(i + n - 1) : IsDigit(CharAt(s, k))

\* The position after the digits that start at position i.
RECURSIVE SkipDigits(_, _)
SkipDigits(s, i) == IF IsDigit(CharAt(s, i)) THEN SkipDigits(s, i + 1) ELSE i

\* (Z|(([-+])([0-9]{2}):([0-9]{2})))?$ at position i.
MatchesZone(s, i) ==
  \/ i = Len(s) + 1
  \/ i = Len(s) /\ CharAt(s, i) = "Z"
  \/ /\ i + 5 = Len(s)
     /\ CharAt(s, i) \in {"-", "+"}
     /\ DigitsAt(s, i + 1, 2)
     /\ CharAt(s, i + 3) = ":"
     /\ DigitsAt(s, i + 4, 2)

\* (\.([0-9]+))? at position i, then the zone: a zone starts with no digit,
\* so the fraction takes every digit that follows the dot.
MatchesFraction(s, i) ==
  IF CharAt(s, i) = "."
  THEN IsDigit(CharAt(s, i + 1)) /\ MatchesZone(s, SkipDigits(s, i + 1))
  ELSE MatchesZone(s, i)

\* (:([0-9]{2})(\.([0-9]+))?)? at position i, then the zone.
MatchesSeconds(s, i) ==
  IF CharAt(s, i) = ":"
  THEN DigitsAt(s, i + 1, 2) /\ MatchesFraction(s, i + 3)
  ELSE MatchesZone(s, i)

\* The pattern of a time: a year, then optionally a month, a day and a time
\* of day with optional seconds, fraction and zone, each only after the one
\* before it, and nothing else.
MatchesTimePattern(s) ==
  /\ DigitsAt(s, 1, 4)
  /\ \/ Len(s) = 4
     \/ /\ CharAt(s, 5) = "-" /\ DigitsAt(s, 6, 2)
        /\ \/ Len(s) = 7
           \/ /\ CharAt(s, 8) = "-" /\ DigitsAt(s, 9, 2)
              /\ \/ Len(s) = 10
                 \/ /\ CharAt(s, 11) = "T" /\ DigitsAt(s, 12, 2)
                    /\ CharAt(s, 14) = ":" /\ DigitsAt(s, 15, 2)
                    /\ MatchesSeconds(s, 17)

\* definitions.labels
Labels(x) ==
  /\ x.t = "array"
  /\ \A i \in 1..Len(x.v) :
       x.v[i].t = "object" =>
         /\ Closed(x.v[i], {"language", "label"}, {"language", "label"})
         /\ Typed(x.v[i], "language", "string")
         /\ Typed(x.v[i], "label", "string")

Labelled(x, k) == k \in Keys(x) => Labels(x.v[k])

\* definitions.wmsLegend
WmsLegend(x) ==
  x.t = "object" =>
    /\ Closed(x, {"type", "style"}, {"type", "style"})
    /\ Enum(x, "type", "wms")
    /\ Typed(x, "style", "string")

\* definitions.urlLegend
UrlLegend(x) ==
  x.t = "object" =>
    /\ Closed(x, {"type", "url"}, {"type", "url"})
    /\ Enum(x, "type", "url")
    /\ Typed(x, "url", "string")

\* definitions.attributesStatistics
AttributesStatistics(x) ==
  /\ x.t = "object"
  /\ Closed(x, {"type", "labels", "attributes"}, {"type"})
  /\ Enum(x, "type", "attributes")
  /\ Labelled(x, "labels")
  /\ "attributes" \in Keys(x) =>
       /\ x.v["attributes"].t = "array"
       /\ \A i \in 1..Len(x.v["attributes"].v) :
            LET a == x.v["attributes"].v[i]
            IN a.t = "object" =>
                 /\ Closed(a, {"labels", "attribute"}, {"labels", "attribute"})
                 /\ Labelled(a, "labels")
                 /\ Typed(a, "attribute", "string")

\* definitions.urlStatistics
UrlStatistics(x) ==
  /\ x.t = "object"
  /\ Closed(x, {"type", "labels", "url"}, {"type", "url"})
  /\ Enum(x, "type", "url")
  /\ Labelled(x, "labels")
  /\ Typed(x, "url", "string")

\* Mutant of Wms: serverUrls is not required.
WmsOptionalUrls(x) ==
  /\ x.t = "object"
  /\ Closed(x, {"type", "id", "serverUrls", "name", "imageFormat", "legend",
                "sourceLink", "sourceLabel", "times", "styles", "visible",
                "statistics"},
            {"id", "name"})

\* definitions.wms
Wms(x) ==
  /\ x.t = "object"
  /\ Closed(x, {"type", "id", "serverUrls", "name", "imageFormat", "legend",
                "sourceLink", "sourceLabel", "times", "styles", "visible",
                "statistics"},
            {"id", "name", "serverUrls"})
  /\ Enum(x, "type", "wms")
  /\ Typed(x, "id", "number")
  /\ TypedArray(x, "serverUrls", "string")
  /\ Typed(x, "name", "string")
  /\ Typed(x, "imageFormat", "string")
  /\ "legend" \in Keys(x) =>
       /\ x.v["legend"].t = "object"
       /\ WmsLegend(x.v["legend"]) # UrlLegend(x.v["legend"])
  /\ Typed(x, "sourceLink", "string")
  /\ Typed(x, "sourceLabel", "string")
  /\ TypedArray(x, "times", "string")
  /\ "times" \in Keys(x) /\ x.v["times"].t = "array" =>
       \A i \in 1..Len(x.v["times"].v) :
         x.v["times"].v[i].t = "string" =>
           MatchesTimePattern(x.v["times"].v[i].v)
  /\ Labelled(x, "styles")
  /\ Typed(x, "visible", "boolean")
  /\ "statistics" \in Keys(x) =>
       /\ x.v["statistics"].t = "array"
       /\ \A i \in 1..Len(x.v["statistics"].v) :
            AttributesStatistics(x.v["statistics"].v[i])
              # UrlStatistics(x.v["statistics"].v[i])

\* definitions.bingAerial
BingAerial(x) ==
  /\ x.t = "object"
  /\ Closed(x, {"type", "id", "visible"}, {"type", "id"})
  /\ Enum(x, "type", "bing-aerial")
  /\ Typed(x, "id", "number")
  /\ Typed(x, "visible", "boolean")

\* definitions.osm
Osm(x) ==
  /\ x.t = "object"
  /\ Closed(x, {"type", "id", "visible"}, {"type", "id"})
  /\ Enum(x, "type", "osm")
  /\ Typed(x, "id", "number")
  /\ Typed(x, "visible", "boolean")

\* The three branches of the oneOf of a layer that x matches.
LayerBranches(x) ==
  {b \in {"wms", "bingAerial", "osm"} :
     \/ b = "wms" /\ Wms(x)
     \/ b = "bingAerial" /\ BingAerial(x)
     \/ b = "osm" /\ Osm(x)}

\* properties.layers
LayersProperty(x) ==
  /\ x.t = "array"
  /\ \A i \in 1..Len(x.v) : Cardinality(LayerBranches(x.v[i])) = 1

\* properties.contexts
ContextsProperty(x) ==
  /\ x.t = "array"
  /\ \A i \in 1..Len(x.v) :
       LET c == x.v[i]
       IN /\ c.t = "object"
          /\ Closed(c, {"id", "infoFile", "labels", "inlineLegendUrl",
                        "downloadUrl", "layers", "active"}, {"id"})
          /\ Typed(c, "id", "number")
          /\ Typed(c, "infoFile", "string")
          /\ Labelled(c, "labels")
          /\ Typed(c, "inlineLegendUrl", "string")
          /\ Typed(c, "downloadUrl", "string")
          /\ TypedArray(c, "layers", "number")
          /\ Typed(c, "active", "boolean")

\* definitions.context
ContextItem(x) ==
  /\ x.t = "object"
  /\ Closed(x, {"context"}, {"context"})
  /\ Typed(x, "context", "number")

\* definitions.items and definitions.group, which refer to each other.
RECURSIVE Items(_), GroupItem(_)
Items(x) ==
  /\ x.t = "array"
  /\ \A i \in 1..Len(x.v) :
       /\ x.v[i].t = "object"
       /\ GroupItem(x.v[i]) # ContextItem(x.v[i])

GroupItem(x) ==
  /\ x.t = "object"
  /\ Closed(x, {"group"}, {"group"})
  /\ LET g == x.v["group"]
     IN /\ g.t = "object"
        /\ Closed(g, {"labels", "infoFile", "exclusive", "items"}, {"labels"})
        /\ Labelled(g, "labels")
        /\ Typed(g, "infoFile", "string")
        /\ Typed(g, "exclusive", "boolean")
        /\ "items" \in Keys(g) => Items(g.v["items"])

\* properties.group
GroupProperty(x) ==
  /\ x.t = "object"
  /\ Closed(x, {"items", "exclusive"}, {})
  /\ "items" \in Keys(x) => Items(x.v["items"])
  /\ Typed(x, "exclusive", "boolean")

\* The schema: whether it accepts the document x.
Schema(x) ==
  /\ x.t = "object"
  /\ Closed(x, {"$schema", "layers", "contexts", "group"},
            {"layers", "contexts", "group"})
  /\ Typed(x, "$schema", "string")
  /\ LayersProperty(x.v["layers"])
  /\ ContextsProperty(x.v["contexts"])
  /\ GroupProperty(x.v["group"])

\* ----------------------------------------------- configuration documents
EnglishLabels == JArray(<<JObject([language |-> JString("en"), label |-> JString("x")])>>)

ServerUrls == JArray(<<JString("http://wms")>>)

\* A configuration with the three ways of writing a layer, a legend, a
\* statistics descriptor and a group inside the root group.
JsonA ==
  JObject([
    layers |-> JArray(<<
      JObject([id |-> JNumber(1), name |-> JString("a"), serverUrls |-> ServerUrls,
               times |-> JArray(<<JString("2020-01-01"), JString("2020-01-02")>>),
               statistics |-> JArray(<<>>),
               legend |-> JObject([type |-> JString("wms"), style |-> JString("s")])]),
      JObject([type |-> JString("wms"), id |-> JNumber(2), name |-> JString("b"),
               serverUrls |-> ServerUrls,
               times |-> JArray(<<JString("2020-01-02"), JString("2020-01-03")>>),
               statistics |-> JArray(<<
                 JObject([type |-> JString("url"), url |-> JString("u"),
                          labels |-> EnglishLabels])>>)]),
      JObject([type |-> JString("osm"), id |-> JNumber(3)]) >>),
    contexts |-> JArray(<<
      JObject([id |-> JNumber(2), active |-> JBoolean(TRUE),
               layers |-> JArray(<<JNumber(1), JNumber(2)>>),
               labels |-> EnglishLabels]),
      JObject([id |-> JNumber(3), layers |-> JArray(<<JNumber(3)>>)]) >>),
    group |-> JObject([
      items |-> JArray(<<
        JObject([group |-> JObject([labels |-> EnglishLabels,
                                    items |-> JArray(<<JObject([context |-> JNumber(3)])>>)])]),
        JObject([context |-> JNumber(2)]) >>)]) ])

\* The configuration that getLayers turns into DocB.
JsonB ==
  JObject([
    layers |-> JArray(<<
      JObject([id |-> JNumber(1), name |-> JString("a"), serverUrls |-> ServerUrls,
               times |-> JArray(<<JString("2020-01-03"), JString("2020-01-01T00:00:00Z")>>),
               statistics |-> JArray(<<JObject([type |-> JString("attributes")])>>)]),
      JObject([id |-> JNumber(4), name |-> JString("d"), serverUrls |-> ServerUrls]) >>),
    contexts |-> JArray(<<
      JObject([id |-> JNumber(1), layers |-> JArray(<<JNumber(1)>>)]),
      JObject([id |-> JNumber(2), active |-> JBoolean(TRUE),
               layers |-> JArray(<<JNumber(4), JNumber(1)>>)]) >>),
    group |-> JObject([
      items |-> JArray(<<JObject([context |-> JNumber(1)]),
                         JObject([context |-> JNumber(2)])>>)]) ])

\* A configuration in which two layers have id 1 and two contexts have id 1.
JsonC ==
  JObject([
    layers |-> JArray(<<
      JObject([id |-> JNumber(1), name |-> JString("a"), serverUrls |-> ServerUrls]),
      JObject([id |-> JNumber(1), name |-> JString("b"), serverUrls |-> ServerUrls,
               times |-> JArray(<<JString("2020-01-03")>>)]) >>),
    contexts |-> JArray(<<
      JObject([id |-> JNumber(1), active |-> JBoolean(TRUE),
               layers |-> JArray(<<JNumber(1)>>)]),
      JObject([id |-> JNumber(1), active |-> JBoolean(TRUE)]) >>),
    group |-> JObject([
      items |-> JArray(<<JObject([context |-> JNumber(1)])>>)]) ])

BaseDocuments == {JsonA, JsonB, JsonC}

\* x with the key "extra", which the schema declares nowhere.
WithExtra(x) ==
  JObject([k \in Keys(x) \cup {"extra"} |->
             IF k = "extra" THEN JString("x") ELSE x.v[k]])

\* x without its key k.
WithoutKey(x, k) == JObject([j \in Keys(x) \ {k} |-> x.v[j]])

ChildKeys(x) ==
  IF x.t = "object" THEN Keys(x)
  ELSE IF x.t = "array" THEN 1..Len(x.v)
  ELSE {}

\* The values made from x by adding the key "extra" to one object of x, and
\* by removing one key from one object of x.
RECURSIVE FieldAdded(_), FieldRemoved(_)
FieldAdded(x) ==
  (IF x.t = "object" THEN {WithExtra(x)} ELSE {})
    \cup UNION {{[x EXCEPT !.v[k] = y] : y \in FieldAdded(x.v[k])} : k \in ChildKeys(x)}

FieldRemoved(x) ==
  (IF x.t = "object" THEN {WithoutKey(x, k) : k \in Keys(x)} ELSE {})
    \cup UNION {{[x EXCEPT !.v[k] = y] : y \in FieldRemoved(x.v[k])} : k \in ChildKeys(x)}

\* The documents given to the validator.
Candidates ==
  {[document |-> d, change |-> "none", verdict |-> "none"] : d \in BaseDocuments}
    \cup {[document |-> d, change |-> "added", verdict |-> "none"] :
            d \in UNION {FieldAdded(b) : b \in BaseDocuments}}
    \cup {[document |-> d, change |-> "removed", verdict |-> "none"] :
            d \in UNION {FieldRemoved(b) : b \in BaseDocuments}}

\* ------------------------------------------------------------ the load
\* The layer object made from a layer of the document: the times become
\* { iso8601 } objects, a layer without type is a wms layer.
BuildLayer(l) ==
  LET type == IF "type" \in Keys(l) THEN l.v["type"].v ELSE "wms"
      times == IF "times" \in Keys(l)
               THEN [i \in 1..Len(l.v["times"].v) |->
                       [iso8601 |-> l.v["times"].v[i].v]]
               ELSE <<>>
  IN IF "statistics" \in Keys(l)
     THEN [id |-> l.v["id"].v, type |-> type, times |-> times,
           statistics |-> [i \in 1..Len(l.v["statistics"].v) |->
                             l.v["statistics"].v[i].v["type"].v]]
     ELSE [id |-> l.v["id"].v, type |-> type, times |-> times]

\* The layersConf made from an accepted document: the root group is object 1,
\* the groups of its items follow, then the contexts in the order of the
\* document.  A context of the tree is the first context of that id; layer
\* ids that no layer has are dropped.  Groups get the ids after the greatest
\* context id.  The documents of the model nest groups one level deep.
Build(x) ==
  LET ls == [i \in 1..Len(x.v["layers"].v) |-> BuildLayer(x.v["layers"].v[i])]
      cs == x.v["contexts"].v
      top == IF "items" \in Keys(x.v["group"])
             THEN x.v["group"].v["items"].v ELSE <<>>
      groupPos == {i \in 1..Len(top) : "group" \in Keys(top[i])}
      g == Cardinality(groupPos)
      GroupRef(i) == 1 + Cardinality({j \in groupPos : j <= i})
      GroupAt(r) == CHOOSE i \in groupPos : GroupRef(i) = 1 + r
      CtxRef(id) ==
        LET k == First({j \in 1..Len(cs) : cs[j].v["id"].v = id})
        IN IF k = 0 THEN NoRef ELSE 1 + g + k
      ItemRefs(items, nested) ==
        SelectSeq([i \in 1..Len(items) |->
                     IF "context" \in Keys(items[i])
                     THEN CtxRef(items[i].v["context"].v)
                     ELSE IF nested THEN NoRef ELSE GroupRef(i)],
                  LAMBDA r : r # NoRef)
      SubItems(r) ==
        LET gi == top[GroupAt(r)].v["group"]
        IN IF "items" \in Keys(gi) THEN ItemRefs(gi.v["items"].v, TRUE) ELSE <<>>
      topRefs == ItemRefs(top, FALSE)
      maxId == IF Len(cs) = 0 THEN 0
               ELSE CHOOSE m \in {cs[k].v["id"].v : k \in 1..Len(cs)} :
                      \A k \in 1..Len(cs) : cs[k].v["id"].v <= m
      ParentOf(ref) ==
        IF ref \in Range(topRefs) THEN 1
        ELSE 1 + First({r \in 1..g : ref \in Range(SubItems(r))})
      LayersOf(c) ==
        IF "layers" \in Keys(c)
        THEN SelectSeq([i \in 1..Len(c.v["layers"].v) |->
                          FindLayer(ls, c.v["layers"].v[i].v)],
                       LAMBDA l : l # Undefined)
        ELSE <<>>
      groupNodes == [r \in 1..g |-> GroupNode(maxId + r, 1, SubItems(r))]
      contextNodes ==
        [k \in 1..Len(cs) |->
           ContextNode(cs[k].v["id"].v,
                       IF ParentOf(1 + g + k) = 1 /\ (1 + g + k) \notin Range(topRefs)
                       THEN NoRef ELSE ParentOf(1 + g + k),
                       LayersOf(cs[k]),
                       IF "active" \in Keys(cs[k]) THEN cs[k].v["active"].v ELSE FALSE)]
  IN [layers |-> ls,
      nodes |-> <<GroupNode(0, NoRef, topRefs)>> \o groupNodes \o contextNodes,
      contexts |-> [k \in 1..Len(cs) |-> 1 + g + k],
      groups |-> 1]

\* The verdict of the schema on a document.
Validate(document) == IF Schema(document) THEN "accepted" ELSE "rejected"

\* getLayers settles on the document the server holds: the document is
\* checked against the schema; the promise resolves with the layersConf
\* built from an accepted document and rejects on a rejected one.
getLayers_validates(i) ==
  /\ i \in DOMAIN tasks
  /\ tasks[i].pc = "getLayers"
  /\ config' = [config EXCEPT !.verdict = Validate(config.document)]
  /\ tasks' = IF Validate(config.document) = "accepted"
              THEN [tasks EXCEPT ![i].pc = "getLayers.resolved",
                                 ![i].doc = Build(config.document)]
              ELSE [tasks EXCEPT ![i].pc = "getLayers.rejected"]
  /\ UNCHANGED Store

\* The server holds one of the candidate documents; nothing was fetched yet.
InitSchema ==
  /\ InitialState
  /\ tasks = <<>>
  /\ config \in Candidates

\* Loads of the document through the fetchLayersConfig action.
NextSchema ==
  \/ dispatch_fetchLayersConfig
  \/ \E i \in TaskIds : getLayers_validates(i)
  \/ \E i \in TaskIds : fetchLayersConfig_then(i)
  \/ \E i \in TaskIds : fetchLayersConfig_catch(i)

SpecSchema == InitSchema /\ [][NextSchema]_vars

\* ================================================================ claims
IdTaking == {"delete_item", "save_group", "save_context", "update_group",
             "edit_item", "toggle_context"}

\* The node an id resolves to in the current tree (NoRef: none).
Resolve(id) == IF groups = NoRef THEN NoRef ELSE findById(nodes, groups, id)

\* The last mutation reached setContextsTimes: receive_layers always does,
\* update_layers when its swap did not throw (the recompute then cannot),
\* save_context when its id resolved.
RecomputeRan ==
  \/ last.op = "receive_layers"
  \/ last.op = "update_layers" /\ ~last.raised
  \/ last.op = "save_context" /\ Resolve(last.id) # NoRef

ContextRefs == Range(contexts)

\* C1: after update_layers with catalog L, every entry of every context's
\* layers is a layer object of L, and none is undefined.
C1_LayersFromCatalog ==
  last.op = "update_layers" =>
    \A c \in ContextRefs : \A i \in 1..Len(nodes[c].layers) :
      /\ nodes[c].layers[i] # Undefined
      /\ nodes[c].layers[i] \in Range(layers)

\* C2: after save_context(id, layerIds) on a context, its layers are exactly
\* the catalog layers whose ids occur in layerIds, in that order; an id of no
\* layer contributes no entry.
C2_UnresolvedIdsDropped ==
  (last.op = "save_context" /\ Resolve(last.id) # NoRef) =>
    nodes[Resolve(last.id)].layers =
      SelectSeq(ResolveLayers(layers, last.arg.layerIds), LAMBDA l : l # Undefined)

\* The places (group, index) at which node n is listed in some items array.
Places(n) ==
  {p \in (1..Len(nodes)) \X (1..Len(nodes)) :
     /\ nodes[p[1]].isGroup
     /\ p[2] <= Len(nodes[p[1]].items)
     /\ nodes[p[1]].items[p[2]] = n}

\* n is listed exactly once, in the items of the group its parent names.
OneParent(n) ==
  /\ Cardinality(Places(n)) = 1
  /\ \A p \in Places(n) : nodes[n].parent = p[1]

\* C3 (as claimed): in every reachable state, every non-root Group/Context
\* (of the tree or of the flat context list) is in the items of exactly one
\* group and its parent is that group.
C3_TreeInEveryState ==
  groups # NoRef =>
    \A n \in (TreeNodes \cup ContextRefs) \ {groups} : OneParent(n)

\* C3 (amended): whenever no move is between its two update_group calls, every
\* Group/Context reachable from the root through items is in the items of
\* exactly one group, once, and its parent is that group.
C3_TreeWhenSettled ==
  ~Moving => \A n \in TreeNodes \ {groups} : OneParent(n)

\* A move has just been completed by its second update_group.
C3_MoveCompleted ==
  /\ move # Null /\ move.done
  /\ last.op = "update_group"
  /\ move.item \in TreeNodes

\* C4: a move of X from G1 to G2, in either order of the two update_group
\* calls, shortens G1.items by one, lengthens G2.items by one and leaves
\* X.parent = G2.
C4_MovePreservesCount ==
  (move # Null /\ move.done) =>
    /\ Len(nodes[move.from].items) = move.lenFrom - 1
    /\ Len(nodes[move.to].items) = move.lenTo + 1
    /\ nodes[move.item].parent = move.to

\* A move whose target list was updated before its source list is complete.
C4_MovedAddFirst ==
  /\ move # Null /\ move.done /\ move.first = "add"
  /\ move.item \in Range(nodes[move.to].items)

\* C5: an id-taking mutation given an id that resolves to no node does not
\* raise, and delete_item then leaves the state as it was.
C5_MissingTargetIsNoOp ==
  [][(last'.op \in IdTaking /\ groups # NoRef /\ Resolve(last'.id) = NoRef) =>
       /\ ~last'.raised
       /\ last'.op = "delete_item" =>
            UNCHANGED <<layers, nodes, contexts, groups, contextsTimes,
                        activeContextsIds, editGroup, editContext>>]_vars

\* C6: a mutation that raises leaves the store state as it was before it.
C6_NoPartialApplication ==
  [][last'.raised =>
       UNCHANGED <<layers, nodes, contexts, groups, contextsTimes,
                   activeContextsIds, editGroup, editContext>>]_vars

\* The ISO strings of the times of the wms layers with times among ls.
MemberIsos(ls) ==
  UNION {{l.times[i].iso8601 : i \in 1..Len(l.times)} :
           l \in {m \in Range(ls) : m # Undefined /\ m.type = "wms"}}

\* times holds each ISO string of the member layers once and no other, in
\* ascending order of the parsed instants.
AggregatedFrom(times, ls) ==
  /\ {times[i].iso8601 : i \in 1..Len(times)} = MemberIsos(ls)
  /\ \A i, j \in 1..Len(times) : i # j => times[i].iso8601 # times[j].iso8601
  /\ \A i, j \in 1..Len(times) :
       i < j => DateParse(times[i].iso8601) <= DateParse(times[j].iso8601)

\* C7: after every recompute by setContextsTimes, every context's times are the
\* distinct times of its wms member layers, each once, ascending by instant.
C7_TimesAggregated ==
  RecomputeRan =>
    \A c \in ContextRefs : AggregatedFrom(nodes[c].times, nodes[c].layers)

\* C8: after every recompute, contextsTimes[C.id] is the last of C.times when
\* C.times is not empty, and there is no entry at C.id when it is.
C8_CurrentTimeIsLatest ==
  RecomputeRan =>
    \A c \in ContextRefs :
      ArrayGet(contextsTimes, nodes[c].id) =
        IF Len(nodes[c].times) > 0 THEN nodes[c].times[Len(nodes[c].times)] ELSE Hole

ContextIds == {nodes[c].id : c \in ContextRefs}

\* C9: set_context_time(c, t) on a context id c makes contextsTimes[c] = t and
\* leaves the entry of every other id as it was.
C9_SetTimeAtId ==
  [][(last'.op = "set_context_time" /\ last'.id \in ContextIds) =>
       /\ ArrayGet(contextsTimes', last'.id) = last'.arg
       /\ \A d \in Ids \ {last'.id} :
            ArrayGet(contextsTimes', d) = ArrayGet(contextsTimes, d)]_vars

\* C10: a toggle of a context id adds it when absent and removes it when
\* present, a second toggle of the same id restores the membership, and a
\* toggle of an id of no context changes nothing.
C10_ToggleSymmetry ==
  [][last'.op = "toggle_context" =>
       LET id == last'.id
           before == Range(activeContextsIds)
           after == Range(activeContextsIds')
           again == Range(ToggleContext(nodes', contexts', activeContextsIds', id))
       IN IF id \in ContextIds
          THEN /\ id \notin before => after = before \cup {id}
               /\ id \in before => after = before \ {id}
               /\ again = before
          ELSE activeContextsIds' = activeContextsIds]_vars

\* The value of the activeLayers getter in the current state.
ActiveNow == activeLayers(nodes, contexts, activeContextsIds)

\* C11: queryableLayers is exactly the sub-sequence of activeLayers whose
\* statistics is present and not empty.
C11_QueryableNonEmptyStatistics ==
  ~HasUndefined(ActiveNow) =>
    queryableLayers(ActiveNow).value =
      SelectSeq(ActiveNow,
                LAMBDA l : "statistics" \in DOMAIN l /\ Len(l.statistics) > 0)

\* The indices in state.contexts of the contexts whose id is active.
ActiveContextIdx ==
  {i \in 1..Len(contexts) : nodes[contexts[i]].id \in Range(activeContextsIds)}

\* The positions (context index, layer index) of the walk over the layers of
\* the active contexts.
WalkPlaces ==
  UNION {{<<i, j>> : j \in 1..Len(nodes[contexts[i]].layers)} : i \in ActiveContextIdx}

LayerAt(p) == nodes[contexts[p[1]]].layers[p[2]]

WalkBefore(p, q) == p[1] < q[1] \/ (p[1] = q[1] /\ p[2] < q[2])

FirstPlace(l) ==
  CHOOSE p \in WalkPlaces :
    LayerAt(p) = l /\ \A q \in WalkPlaces : LayerAt(q) = l => ~WalkBefore(q, p)

Reverse(s) == [i \in 1..Len(s) |-> s[Len(s) + 1 - i]]

\* C12: activeLayers holds every entry of the layers of the active contexts
\* once and nothing else, in the order of first occurrence along
\* state.contexts and each context's layers, whatever the order of the ids in
\* activeContextsIds.
C12_ActiveLayersUnion ==
  /\ Range(ActiveNow) = {LayerAt(p) : p \in WalkPlaces}
  /\ \A i, j \in 1..Len(ActiveNow) : i # j => ActiveNow[i] # ActiveNow[j]
  /\ \A i, j \in 1..Len(ActiveNow) :
       i < j => WalkBefore(FirstPlace(ActiveNow[i]), FirstPlace(ActiveNow[j]))
  /\ activeLayers(nodes, contexts, Reverse(activeContextsIds)) = ActiveNow

\* Two active contexts, activated in the reverse of their list order, share a
\* layer.
C12_SharedLayerActive ==
  /\ Len(activeContextsIds) = 2
  /\ \E p, q \in WalkPlaces : p[1] # q[1] /\ LayerAt(p) = LayerAt(q)
  /\ IndexOfNodeId(nodes, contexts, activeContextsIds[1])
       > IndexOfNodeId(nodes, contexts, activeContextsIds[2])

\* C13: at most one of editGroup and editContext is set; after edit_item it
\* is the node of the given id, and both are null when the id did not resolve.
C13_SingleEditReference ==
  /\ ~(editGroup # Null /\ editContext # Null)
  /\ (last.op = "edit_item" /\ ~last.raised) =>
       IF Resolve(last.id) = NoRef
       THEN editGroup = Null /\ editContext = Null
       ELSE IF nodes[Resolve(last.id)].isGroup
            THEN editGroup = [id |-> last.id]
            ELSE editContext = [id |-> last.id]

\* The ids of the contexts of a document whose active flag is set, in the
\* order of its context list.
SeededIds(doc) ==
  LET sel == SelectSeq(doc.contexts, LAMBDA c : doc.nodes[c].active)
  IN [i \in 1..Len(sel) |-> doc.nodes[sel[i]].id]

\* C16: after receive_layers, layers, contexts and groups are those of the
\* loaded document, no node of the previous tree is left, and
\* activeContextsIds is the list of the ids of its active contexts.
C16_LoadReplacesState ==
  last.op = "receive_layers" =>
    LET doc == last.arg.doc
    IN /\ layers = doc.layers
       /\ contexts = doc.contexts
       /\ groups = doc.groups
       /\ Len(nodes) = Len(doc.nodes)
       /\ \A r \in 1..Len(nodes) : [nodes[r] EXCEPT !.times = <<>>] = doc.nodes[r]
       /\ activeContextsIds = SeededIds(doc)

\* A document was loaded over a store that other mutations had changed.
C16_Reloaded ==
  /\ last.op = "receive_layers"
  /\ steps = MaxSteps
  /\ \E c \in ContextRefs : ~nodes[c].active

\* C19: a delete_item that finds its node takes that one entry out of the
\* parent's items, keeping the order of the rest, and changes nothing else.
C19_DeleteRemovesOneEntry ==
  [][(last'.op = "delete_item" /\ ~last'.raised) =>
       LET item == Resolve(last'.id)
           parent == nodes[item].parent
       IN /\ Len(nodes'[parent].items) = Len(nodes[parent].items) - 1
          /\ nodes' = [nodes EXCEPT ![parent].items = Without(@, item)]
          /\ UNCHANGED <<layers, contexts, groups, contextsTimes,
                         activeContextsIds, editGroup, editContext>>]_vars

\* A deleted context is still in the flat context list.
C19_DeletedContextKept ==
  /\ last.op = "delete_item" /\ ~last.raised
  /\ \E c \in ContextRefs : c \notin TreeNodes /\ nodes[c].id = last.id

NoDuplicateActive ==
  \A i, j \in 1..Len(activeContextsIds) :
    i # j => activeContextsIds[i] # activeContextsIds[j]

\* C20: activeContextsIds has no duplicate, each of its ids is
\* the id of a context of state.contexts, and that context is reachable from
\* the root group.
C20_ActiveInTree ==
  /\ NoDuplicateActive
  /\ \A i \in 1..Len(activeContextsIds) :
       \E c \in ContextRefs \cap TreeNodes : nodes[c].id = activeContextsIds[i]

IsTask(i, action, pc) ==
  i \in DOMAIN tasks /\ tasks[i].action = action /\ tasks[i].pc = pc

\* C14: once the restoreVersion of a restoreBackup has succeeded a load is
\* issued; once that load has resolved receive_layers is committed, with the
\* loaded document; a restoreBackup whose restoreVersion has not succeeded
\* has committed nothing.
C14_RestoreThenLoad ==
  /\ \A i \in TaskIds :
       IsTask(i, "restoreBackup", "restoreVersion.resolved")
         ~> IsTask(i, "restoreBackup", "getLayers")
  /\ \A i \in TaskIds :
       IsTask(i, "restoreBackup", "getLayers.resolved")
         ~> (i \in DOMAIN tasks /\ tasks[i].committed)
  /\ [][\A i \in DOMAIN tasks :
          (tasks[i].action = "restoreBackup" /\ ~tasks[i].committed
             /\ tasks'[i].committed)
            => /\ tasks[i].succeeded
               /\ last'.op = "receive_layers"
               /\ last'.arg.doc = AllocateDoc(tasks[i].doc, steps')
               /\ layers' = last'.arg.doc.layers
               /\ contexts' = tasks[i].doc.contexts
               /\ groups' = tasks[i].doc.groups]_vars
  /\ [](\A i \in DOMAIN tasks :
          (tasks[i].action = "restoreBackup" /\ ~tasks[i].succeeded)
            => ~tasks[i].committed)

\* A restoreBackup has reloaded a store that held another document.
C14_Restored ==
  \E i \in DOMAIN tasks :
    /\ tasks[i].action = "restoreBackup"
    /\ tasks[i].pc = "committed"
    /\ steps > 1

Failed(task) ==
  \/ task.pc \in {"restoreVersion.rejected", "getLayers.rejected"}
  \/ task.pc = "alerted" /\ ~task.committed

\* C15: the step that handles a failed getLayers or restoreVersion leaves
\* layers, contexts, groups, contextsTimes and activeContextsIds (and the
\* nodes) as they were, and a failed action has committed no mutation.
C15_FailureCommitsNothing ==
  [][\A i \in DOMAIN tasks :
       /\ (tasks'[i] # tasks[i] /\ Failed(tasks'[i]))
            => /\ UNCHANGED <<layers, nodes, contexts, groups,
                              contextsTimes, activeContextsIds>>
               /\ UNCHANGED <<last, steps>>
       /\ Failed(tasks'[i]) => ~tasks'[i].committed]_vars

\* A load and a restore have failed on a store that holds a configuration.
C15_FailedOnLoadedStore ==
  /\ layers # <<>>
  /\ \E i \in DOMAIN tasks : tasks[i].pc = "alerted" /\ ~tasks[i].committed

Validated == config.verdict \in {"accepted", "rejected"}

UnknownTopLevelKey(d) ==
  ~(Keys(d) \subseteq {"$schema", "layers", "contexts", "group"})

WmsWithoutServerUrls(d) ==
  /\ "layers" \in Keys(d)
  /\ \E i \in 1..Len(d.v["layers"].v) :
       LET l == d.v["layers"].v[i]
       IN /\ "type" \notin Keys(l) \/ l.v["type"] = JString("wms")
          /\ "serverUrls" \notin Keys(l)

\* C17: the schema rejects a document with an undeclared top-level key, a
\* document with a wms layer (type absent or "wms") without serverUrls, and a
\* document in which an object has a field the schema does not declare.
C17_ClosedSchema ==
  (/\ Validated
   /\ \/ UnknownTopLevelKey(config.document)
      \/ WmsWithoutServerUrls(config.document)
      \/ config.change = "added")
    => config.verdict = "rejected"

\* The only fault of a rejected document is a wms layer without serverUrls.
C17_WmsWithoutServerUrlsRejected ==
  /\ config.verdict = "rejected"
  /\ \E i \in 1..Len(JsonA.v["layers"].v) :
       config.document =
         [JsonA EXCEPT !.v["layers"].v[i] = WithoutKey(@, "serverUrls")]

\* C18: in a store loaded from a document that the schema accepts, no two
\* layers have the same id and no two Group/Context objects have the same id.
C18_UniqueIds ==
  (config.verdict = "accepted" /\ last.op = "receive_layers") =>
    /\ \A i, j \in 1..Len(layers) : i # j => layers[i].id # layers[j].id
    /\ \A m, n \in 1..Len(nodes) : m # n => nodes[m].id # nodes[n].id

====
